---- MODULE Spec2Model ----
(***************************************************************************)
(* State-machine model of the ConditionalDropdown component               *)
(* (src/ConditionalDropdown.tsx): the option store (dropdownData), the     *)
(* selection snapshot (selections), the settle timers of handleSelection   *)
(* and saveNewOption, the authoring modals and the React effects (save to  *)
(* localStorage, default selections).                                      *)
(*                                                                         *)
(* JavaScript strings that the code transforms (labels, values, import     *)
(* text) are sequences of one-character strings, so that trim,             *)
(* toLowerCase, split and replace(/\s+/g,'-') are computed as the code     *)
(* computes them.  The empty string '' is <<>>.  Dropdown ids are plain    *)
(* TLA+ strings; an absent dependsOn is "".                                *)
(***************************************************************************)
EXTENDS Integers, Sequences, FiniteSets, TLC

\* ---------------------------------------------------------------- bounds
\* Number of settle timers (handleSelection / saveNewOption) in flight.
MaxPending == 2
\* Number of options authored in a session, over all contexts.
MaxAuthored == 2
\* Number of lines of one import text.
MaxLines == 2
\* Number of options authored in a session of the three-level hierarchy whose
\* only authored name is one and the same under every parent.
MaxAuthoredDeep == 3

\* ------------------------------------------------------- string helpers
NL == "\n"

IsSpace(c) == c \in {" ", NL}

\* String.prototype.toLowerCase on one character of the model alphabet.
LowerChar(c) ==
  CASE c = "A" -> "a"
    [] c = "B" -> "b"
    [] c = "S" -> "s"
    [] OTHER -> c

toLowerCase(s) == [i \in 1..Len(s) |-> LowerChar(s[i])]

RECURSIVE trimStart(_)
trimStart(s) ==
  IF s # <<>> /\ IsSpace(Head(s)) THEN trimStart(Tail(s)) ELSE s

RECURSIVE trimEnd(_)
trimEnd(s) ==
  IF s # <<>> /\ IsSpace(s[Len(s)]) THEN trimEnd(SubSeq(s, 1, Len(s) - 1)) ELSE s

\* String.prototype.trim
trim(s) == trimEnd(trimStart(s))

\* label.replace(/\s+/g, '-'): every maximal run of whitespace becomes one '-'.
RECURSIVE replaceSpaces(_)
replaceSpaces(s) ==
  IF s = <<>> THEN <<>>
  ELSE IF IsSpace(Head(s))
       THEN <<"-">> \o replaceSpaces(trimStart(Tail(s)))
       ELSE <<Head(s)>> \o replaceSpaces(Tail(s))

\* importText.split('\n')
RECURSIVE splitAcc(_, _)
splitAcc(text, cur) ==
  IF text = <<>> THEN <<cur>>
  ELSE IF Head(text) = NL
       THEN <<cur>> \o splitAcc(Tail(text), <<>>)
       ELSE splitAcc(Tail(text), Append(cur, Head(text)))

split(text) == splitAcc(text, <<>>)

\* The text a user types into the import box: the given lines, one per row.
RECURSIVE JoinLines(_)
JoinLines(ls) ==
  IF ls = <<>> THEN <<>>
  ELSE IF Len(ls) = 1 THEN ls[1]
  ELSE ls[1] \o <<NL>> \o JoinLines(Tail(ls))

\* Array.prototype.map / filter on sequences.
RECURSIVE MapTrim(_)
MapTrim(ls) == IF ls = <<>> THEN <<>> ELSE <<trim(Head(ls))>> \o MapTrim(Tail(ls))

NonEmptyLine(l) == Len(l) > 0

\* importText.split('\n').map(line => line.trim()).filter(line => line.length > 0)
importLines(text) == SelectSeq(MapTrim(split(text)), NonEmptyLine)

\* The reserved "Add New Option" value of the Select.
ADD_NEW == <<"__add_new__">>

\* ------------------------------------------------------- configuration
Opt(v, l) == [value |-> v, label |-> l]

Dropdown(i, o, p, c) == [id |-> i, options |-> o, dependsOn |-> p, creatable |-> c]

\* A three-level hierarchy a -> b -> c, as the demo page's
\* deviceType -> brand -> series, with seed options on the root.
SeededConfig ==
  << Dropdown("a", <<Opt(<<"x">>, <<"A">>), Opt(<<"y">>, <<"B">>)>>, "", TRUE),
     Dropdown("b", <<Opt(<<"s">>, <<"S">>)>>, "a", TRUE),
     Dropdown("c", <<>>, "b", TRUE) >>

\* The same hierarchy without seed options on the root.
BlankConfig ==
  << Dropdown("a", <<>>, "", TRUE),
     Dropdown("b", <<Opt(<<"s">>, <<"S">>)>>, "a", TRUE),
     Dropdown("c", <<>>, "b", TRUE) >>

Configs == {SeededConfig, BlankConfig}

\* The same hierarchy with no seed below the root, as the demo page's
\* deviceType -> brand -> series, and a root the user cannot add to.
DeepConfig ==
  << Dropdown("a", <<Opt(<<"x">>, <<"A">>), Opt(<<"y">>, <<"B">>)>>, "", FALSE),
     Dropdown("b", <<>>, "a", TRUE),
     Dropdown("c", <<>>, "b", TRUE) >>

\* How many options the sessions of a config may author.
authoredBound(cfg) == IF cfg = DeepConfig THEN MaxAuthoredDeep ELSE MaxAuthored

\* What the user can type into the "Option Name" box.
RawNames == { <<"A">>, <<" ", "a">>, <<" ">> }

\* The lines the user can type into the import box.
RawLines == { <<"A">>, <<"a">>, <<" ">> }

RECURSIVE SeqsUpTo(_, _)
SeqsUpTo(S, n) ==
  IF n = 0 THEN {<<>>}
  ELSE LET shorter == SeqsUpTo(S, n - 1)
       IN  shorter \cup {Append(q, e) : q \in {r \in shorter : Len(r) = n - 1}, e \in S}

ImportTexts == {JoinLines(ls) : ls \in SeqsUpTo(RawLines, MaxLines)}

\* config.find(d => d.id === id)
FindDropdown(cfg, id) == cfg[CHOOSE i \in 1..Len(cfg) : cfg[i].id = id]

Ids(cfg) == {cfg[i].id : i \in 1..Len(cfg)}

\* -------------------------------------------------- selections snapshot
\* selections is a Record<string,string>: a function on the keys it holds.
\* selections[id]: undefined and '' are both falsy and read as <<>>.
Sel(sel, id) == IF id \in DOMAIN sel THEN sel[id] ELSE <<>>

\* { ...sel, [id]: v }
Put(sel, id, v) == [k \in (DOMAIN sel) \cup {id} |-> IF k = id THEN v ELSE sel[k]]

NoSelections == [k \in {} |-> <<>>]

\* ------------------------------------------------------ hierarchy resolver
\* config.filter(dropdown => dropdown.dependsOn === parentId).map(d => d.id)
RECURSIVE directChildrenFrom(_, _, _)
directChildrenFrom(cfg, parentId, i) ==
  IF i > Len(cfg) THEN <<>>
  ELSE (IF cfg[i].dependsOn = parentId THEN <<cfg[i].id>> ELSE <<>>)
       \o directChildrenFrom(cfg, parentId, i + 1)

directChildren(cfg, parentId) == directChildrenFrom(cfg, parentId, 1)

\* A plausible slip: only the direct children, no recursion.
findDependentDropdowns_direct(cfg, parentId) == directChildren(cfg, parentId)

RECURSIVE findDependentDropdowns(_, _)
RECURSIVE descendantsOfEach(_, _)
descendantsOfEach(cfg, children) ==
  IF children = <<>> THEN <<>>
  ELSE findDependentDropdowns(cfg, Head(children)) \o descendantsOfEach(cfg, Tail(children))

findDependentDropdowns(cfg, parentId) ==
  directChildren(cfg, parentId) \o descendantsOfEach(cfg, directChildren(cfg, parentId))

Range(s) == {s[i] : i \in 1..Len(s)}

\* A plausible slip: the relation is looked up by parent and child only.
relationIndex_anyValue(rels, p, pv, c) ==
  LET hits == {i \in 1..Len(rels) : rels[i].parent = p /\ rels[i].child = c}
  IN  IF hits = {} THEN 0 ELSE CHOOSE i \in hits : \A j \in hits : i <= j

\* relations.findIndex(r => r.parent === p && r.parentValue === pv && r.child === c),
\* 0 standing for -1.
relationIndex(rels, p, pv, c) ==
  LET hits == {i \in 1..Len(rels) :
                 rels[i].parent = p /\ rels[i].parentValue = pv /\ rels[i].child = c}
  IN  IF hits = {} THEN 0 ELSE CHOOSE i \in hits : \A j \in hits : i <= j

\* A plausible slip: a dependent dropdown whose parent is unselected falls
\* back to its own bucket, like a root dropdown.
getDropdownOptions_fallback(dropdown, data, sel) ==
  IF dropdown.dependsOn = "" \/ Sel(sel, dropdown.dependsOn) = <<>>
  THEN IF dropdown.id \in DOMAIN data.options
       THEN data.options[dropdown.id] ELSE dropdown.options
  ELSE LET i == relationIndex(data.relations, dropdown.dependsOn,
                              Sel(sel, dropdown.dependsOn), dropdown.id)
       IN  IF i = 0 THEN <<>> ELSE data.relations[i].options

getDropdownOptions(dropdown, data, sel) ==
  IF dropdown.dependsOn = ""
  THEN IF dropdown.id \in DOMAIN data.options
       THEN data.options[dropdown.id] ELSE dropdown.options
  ELSE IF Sel(sel, dropdown.dependsOn) = <<>>
       THEN <<>>
       ELSE LET i == relationIndex(data.relations, dropdown.dependsOn,
                                   Sel(sel, dropdown.dependsOn), dropdown.id)
            IN  IF i = 0 THEN <<>> ELSE data.relations[i].options

\* isDisabled of the rendered Select.
isDisabled(dropdown, sel) ==
  dropdown.dependsOn # "" /\ Sel(sel, dropdown.dependsOn) = <<>>


\* ----------------------------------------------------------- option store
\* The useState initializer of dropdownData with no initialData and nothing
\* stored under storeKey: the seed options of every configured dropdown.
defaultData(cfg) ==
  [options   |-> [id \in Ids(cfg) |-> FindDropdown(cfg, id).options],
   relations |-> <<>>]

RECURSIVE SumLen(_)
SumLen(rels) == IF rels = <<>> THEN 0 ELSE Len(Head(rels).options) + SumLen(Tail(rels))

RECURSIVE SumOver(_, _)
SumOver(f, S) ==
  IF S = {} THEN 0
  ELSE LET k == CHOOSE k \in S : TRUE IN Len(f[k]) + SumOver(f, S \ {k})

\* Number of options the store holds, over all its contexts.
TotalOptions(data) == SumOver(data.options, DOMAIN data.options) + SumLen(data.relations)

\* Number of options authored since the store was seeded.
Authored(cfg, data) == TotalOptions(data) - TotalOptions(defaultData(cfg))

\* label.replace(/\s+/g, '-') of the trimmed input.
deriveValue(label) == replaceSpaces(label)

\* The duplicate test of saveNewOption: on the value only.
existsSingle(existingOptions, value, label) ==
  \E i \in 1..Len(existingOptions) :
     toLowerCase(existingOptions[i].value) = toLowerCase(value)

\* The duplicate test of handleImportOptions: on the value or on the label.
existsImport(existingOptions, value, label) ==
  \E i \in 1..Len(existingOptions) :
     \/ toLowerCase(existingOptions[i].value) = toLowerCase(value)
     \/ toLowerCase(existingOptions[i].label) = toLowerCase(label)

\* A plausible slip: the parent-selected test of saveNewOption is left out.
noParentContext_unguarded(dropdown, sel) == FALSE

\* "const parentValue = selections[dropdown.dependsOn]; if (!parentValue) return;"
noParentContext(dropdown, sel) ==
  dropdown.dependsOn # "" /\ Sel(sel, dropdown.dependsOn) = <<>>

\* A plausible slip: the new option is put in front of the list.
addToCollection_unshift(data, dropdown, parentValue, newOption) ==
  IF dropdown.dependsOn = ""
  THEN [data EXCEPT !.options =
          [k \in (DOMAIN data.options) \cup {dropdown.id} |->
             IF k = dropdown.id
             THEN <<newOption>> \o (IF k \in DOMAIN data.options THEN data.options[k] ELSE <<>>)
             ELSE data.options[k]]]
  ELSE LET i == relationIndex(data.relations, dropdown.dependsOn, parentValue, dropdown.id)
       IN  IF i > 0
           THEN [data EXCEPT !.relations[i].options = <<newOption>> \o @]
           ELSE [data EXCEPT !.relations =
                   Append(@, [parent |-> dropdown.dependsOn, parentValue |-> parentValue,
                              child |-> dropdown.id, options |-> <<newOption>>])]

\* "Add option to the right collection": the root bucket of the dropdown, or
\* the first relation matching (dependsOn, parentValue, id), created if absent.
addToCollection(data, dropdown, parentValue, newOption) ==
  IF dropdown.dependsOn = ""
  THEN [data EXCEPT !.options =
          [k \in (DOMAIN data.options) \cup {dropdown.id} |->
             IF k = dropdown.id
             THEN Append(IF k \in DOMAIN data.options THEN data.options[k] ELSE <<>>,
                         newOption)
             ELSE data.options[k]]]
  ELSE LET i == relationIndex(data.relations, dropdown.dependsOn, parentValue, dropdown.id)
       IN  IF i > 0
           THEN [data EXCEPT !.relations[i].options = Append(@, newOption)]
           ELSE [data EXCEPT !.relations =
                   Append(@, [parent |-> dropdown.dependsOn, parentValue |-> parentValue,
                              child |-> dropdown.id, options |-> <<newOption>>])]

\* "Create empty relations for all child dropdowns": one push per child.
RECURSIVE pushChildRelations(_, _, _, _)
pushChildRelations(rels, parentId, value, children) ==
  IF children = <<>> THEN rels
  ELSE pushChildRelations(
         Append(rels, [parent |-> parentId, parentValue |-> value,
                       child |-> Head(children), options |-> <<>>]),
         parentId, value, Tail(children))

\* A plausible slip: the relations of the child dropdowns are not created.
createChildRelations_none(cfg, data, parentId, value) == data

createChildRelations(cfg, data, parentId, value) ==
  [data EXCEPT !.relations = pushChildRelations(@, parentId, value, directChildren(cfg, parentId))]

\* The lines.forEach body of handleImportOptions, folded over the lines.
\* existingOptions is the option list read before the loop.
RECURSIVE importEach(_, _, _, _, _, _)
importEach(cfg, dropdown, existingOptions, parentValue, lines, acc) ==
  IF lines = <<>> THEN acc
  ELSE
    LET label == trim(Head(lines))
        value == deriveValue(label)
        next  ==
          IF existsImport(existingOptions, value, label)
          THEN [acc EXCEPT !.duplicates = Append(@, label)]
          ELSE IF dropdown.dependsOn # "" /\ parentValue = <<>>
          THEN acc
          ELSE [acc EXCEPT
                  !.data = createChildRelations(cfg,
                             addToCollection(acc.data, dropdown, parentValue, Opt(value, label)),
                             dropdown.id, value),
                  !.added = Append(@, label)]
    IN importEach(cfg, dropdown, existingOptions, parentValue, Tail(lines), next)

\* A plausible slip: the batch is written back even when nothing was added.
noNewOptions_never(res) == FALSE

\* "if (addedOptions.length === 0)": the batch added nothing, the handler
\* returns before setDropdownData.
noNewOptions(res) == res.added = <<>>

\* ------------------------------------------------------------ JSON text
\* The text localStorage holds is a sequence of tokens: one per character of a
\* string's content, one per structural character, and one per key name.
QUOTE == "\""
BACKSLASH == "\\"

\* A plausible slip: string contents are written out unescaped.
escapeChar_raw(c) == <<c>>

\* JSON.stringify of one character of a string.
escapeChar(c) ==
  IF c = QUOTE THEN <<BACKSLASH, QUOTE>>
  ELSE IF c = BACKSLASH THEN <<BACKSLASH, BACKSLASH>>
  ELSE IF c = NL THEN <<BACKSLASH, "n">>
  ELSE <<c>>

RECURSIVE escape(_)
escape(s) == IF s = <<>> THEN <<>> ELSE escapeChar(Head(s)) \o escape(Tail(s))

stringifyString(s) == <<QUOTE>> \o escape(s) \o <<QUOTE>>

\* "key": for a key of one token.
stringifyKey(k) == <<QUOTE, k, QUOTE, ":">>

stringifyOption(o) ==
  <<"{">> \o stringifyKey("value") \o stringifyString(o.value) \o <<",">>
          \o stringifyKey("label") \o stringifyString(o.label) \o <<"}">>

RECURSIVE stringifyOptionsFrom(_, _)
stringifyOptionsFrom(options, i) ==
  IF i > Len(options) THEN <<>>
  ELSE (IF i > 1 THEN <<",">> ELSE <<>>) \o stringifyOption(options[i])
         \o stringifyOptionsFrom(options, i + 1)

stringifyOptions(options) == <<"[">> \o stringifyOptionsFrom(options, 1) \o <<"]">>

stringifyRelation(r) ==
  <<"{">> \o stringifyKey("parent") \o stringifyString(<<r.parent>>) \o <<",">>
          \o stringifyKey("parentValue") \o stringifyString(r.parentValue) \o <<",">>
          \o stringifyKey("child") \o stringifyString(<<r.child>>) \o <<",">>
          \o stringifyKey("options") \o stringifyOptions(r.options) \o <<"}">>

RECURSIVE stringifyRelationsFrom(_, _)
stringifyRelationsFrom(rels, i) ==
  IF i > Len(rels) THEN <<>>
  ELSE (IF i > 1 THEN <<",">> ELSE <<>>) \o stringifyRelation(rels[i])
         \o stringifyRelationsFrom(rels, i + 1)

\* The keys of data.options in the order they were inserted: the order of the
\* configuration.
RECURSIVE stringifyBucketsFrom(_, _, _, _)
stringifyBucketsFrom(cfg, options, i, first) ==
  IF i > Len(cfg) THEN <<>>
  ELSE IF cfg[i].id \in DOMAIN options
       THEN (IF first THEN <<>> ELSE <<",">>)
              \o stringifyKey(cfg[i].id) \o stringifyOptions(options[cfg[i].id])
              \o stringifyBucketsFrom(cfg, options, i + 1, FALSE)
       ELSE stringifyBucketsFrom(cfg, options, i + 1, first)

\* JSON.stringify(dropdownData)
stringify(cfg, data) ==
  <<"{">> \o stringifyKey("options")
          \o <<"{">> \o stringifyBucketsFrom(cfg, data.options, 1, TRUE) \o <<"}">> \o <<",">>
          \o stringifyKey("relations")
          \o <<"[">> \o stringifyRelationsFrom(data.relations, 1) \o <<"]">>
  \o <<"}">>

\* The result of a parsing step: the value read and the position after it.
Parsed(v, i) == [ok |-> TRUE, val |-> v, i |-> i]
SyntaxError == [ok |-> FALSE, val |-> <<>>, i |-> 0]

\* The content of a string literal from position i up to its closing quote.
RECURSIVE parseChars(_, _, _)
parseChars(t, i, acc) ==
  IF i > Len(t) THEN SyntaxError
  ELSE IF t[i] = QUOTE THEN Parsed(acc, i + 1)
  ELSE IF t[i] = NL THEN SyntaxError
  ELSE IF t[i] = BACKSLASH
       THEN IF i + 1 > Len(t) THEN SyntaxError
            ELSE IF t[i + 1] = "n" THEN parseChars(t, i + 2, Append(acc, NL))
            ELSE IF t[i + 1] \in {QUOTE, BACKSLASH}
                 THEN parseChars(t, i + 2, Append(acc, t[i + 1]))
            ELSE SyntaxError
  ELSE parseChars(t, i + 1, Append(acc, t[i]))

\* A key of one token is a field name of the model; any other key is itself.
keyOf(chars) == IF Len(chars) = 1 THEN chars[1] ELSE chars

RECURSIVE parseValue(_, _)
RECURSIVE parseElements(_, _, _)
RECURSIVE parseMembers(_, _, _)

\* The elements of an array after '[' or after a ','.
parseElements(t, i, acc) ==
  LET e == parseValue(t, i)
  IN  IF ~e.ok \/ e.i > Len(t) THEN SyntaxError
      ELSE IF t[e.i] = "," THEN parseElements(t, e.i + 1, Append(acc, e.val))
      ELSE IF t[e.i] = "]" THEN Parsed(Append(acc, e.val), e.i + 1)
      ELSE SyntaxError

\* The members of an object after '{' or after a ','.
parseMembers(t, i, acc) ==
  IF i > Len(t) \/ t[i] # QUOTE THEN SyntaxError
  ELSE LET k == parseChars(t, i + 1, <<>>)
       IN  IF ~k.ok \/ k.i > Len(t) \/ t[k.i] # ":" THEN SyntaxError
           ELSE LET v == parseValue(t, k.i + 1)
                IN  IF ~v.ok \/ v.i > Len(t) THEN SyntaxError
                    ELSE IF t[v.i] = ","
                         THEN parseMembers(t, v.i + 1, Put(acc, keyOf(k.val), v.val))
                    ELSE IF t[v.i] = "}"
                         THEN Parsed(Put(acc, keyOf(k.val), v.val), v.i + 1)
                    ELSE SyntaxError

parseValue(t, i) ==
  IF i > Len(t) THEN SyntaxError
  ELSE IF t[i] = QUOTE THEN parseChars(t, i + 1, <<>>)
  ELSE IF t[i] = "["
       THEN IF i + 1 <= Len(t) /\ t[i + 1] = "]" THEN Parsed(<<>>, i + 2)
            ELSE parseElements(t, i + 1, <<>>)
  ELSE IF t[i] = "{"
       THEN IF i + 1 <= Len(t) /\ t[i + 1] = "}" THEN Parsed(<<>>, i + 2)
            ELSE parseMembers(t, i + 1, <<>>)
  ELSE SyntaxError

\* Dropdown ids are single tokens of the model: the parent and child strings of
\* a parsed relation are read as those tokens.
relationOf(v) ==
  [parent |-> keyOf(v.parent), parentValue |-> v.parentValue,
   child |-> keyOf(v.child), options |-> v.options]

storeOf(v) ==
  [options |-> v.options,
   relations |-> [i \in 1..Len(v.relations) |-> relationOf(v.relations[i])]]

\* JSON.parse(text): the value, or a SyntaxError thrown.
parse(t) ==
  LET r == parseValue(t, 1)
  IN  IF r.ok /\ r.i = Len(t) + 1 THEN r ELSE SyntaxError

\* ------------------------------------------------------ selection cascade
RECURSIVE clearEach(_, _)
clearEach(sel, ids) ==
  IF ids = <<>> THEN sel ELSE clearEach(Put(sel, Head(ids), <<>>), Tail(ids))

\* A plausible slip: the new value is written, the dependents are kept.
newSelections_keep(cfg, sel, dropdownId, value) == Put(sel, dropdownId, value)

\* handleSelection after the delay: { ...selections, [dropdownId]: value } with
\* every dependent dropdown set to ''.
newSelections(cfg, sel, dropdownId, value) ==
  clearEach(Put(sel, dropdownId, value), findDependentDropdowns(cfg, dropdownId))

\* A plausible slip: the callback selects the new option, the dependents are kept.
addedSelections_keep(cfg, sel, dropdownId, value) == Put(sel, dropdownId, value)

\* The setTimeout callback of saveNewOption: the same computation on the
\* selections captured by saveNewOption.
addedSelections(cfg, sel, dropdownId, value) ==
  clearEach(Put(sel, dropdownId, value), findDependentDropdowns(cfg, dropdownId))

\* The forEach of the default-selections effect: the first option of every
\* dropdown without dependsOn that has options.
RECURSIVE initialSelectionsFrom(_, _, _)
initialSelectionsFrom(cfg, data, i) ==
  IF i = 0 THEN NoSelections
  ELSE LET before   == initialSelectionsFrom(cfg, data, i - 1)
           dropdown == cfg[i]
           options  == IF dropdown.id \in DOMAIN data.options
                       THEN data.options[dropdown.id] ELSE dropdown.options
       IN  IF dropdown.dependsOn = "" /\ Len(options) > 0
           THEN Put(before, dropdown.id, options[1].value)
           ELSE before

\* A plausible slip: the dependsOn test is left out, every dropdown with
\* options gets its first one.
initialSelections_all(cfg, data) ==
  [id \in {i \in Ids(cfg) : i \in DOMAIN data.options /\ data.options[i] # <<>>} |->
     data.options[id][1].value]

initialSelections(cfg, data) == initialSelectionsFrom(cfg, data, Len(cfg))

\* A plausible slip: the defaults are set without calling onSelectionChange.
defaultSelectionsEffect_silent(cfg, init, data, sel) ==
  IF init THEN [initialized |-> TRUE, selections |-> sel, fired |-> FALSE]
  ELSE IF DOMAIN sel # {} THEN [initialized |-> TRUE, selections |-> sel, fired |-> FALSE]
  ELSE IF DOMAIN initialSelections(cfg, data) # {}
       THEN [initialized |-> TRUE, selections |-> initialSelections(cfg, data), fired |-> FALSE]
       ELSE [initialized |-> FALSE, selections |-> sel, fired |-> FALSE]

\* A plausible slip: the effect has no latch and does not look at the snapshot.
defaultSelectionsEffect_every(cfg, init, data, sel) ==
  IF DOMAIN initialSelections(cfg, data) # {}
  THEN [initialized |-> TRUE, selections |-> initialSelections(cfg, data), fired |-> TRUE]
  ELSE [initialized |-> init, selections |-> sel, fired |-> FALSE]

\* The default-selections effect, evaluated once mounted with the given
\* initializedRef, store and selections.  fired: onSelectionChange was called.
defaultSelectionsEffect(cfg, init, data, sel) ==
  IF init THEN [initialized |-> TRUE, selections |-> sel, fired |-> FALSE]
  ELSE IF DOMAIN sel # {} THEN [initialized |-> TRUE, selections |-> sel, fired |-> FALSE]
  ELSE IF DOMAIN initialSelections(cfg, data) # {}
       THEN [initialized |-> TRUE, selections |-> initialSelections(cfg, data), fired |-> TRUE]
       ELSE [initialized |-> FALSE, selections |-> sel, fired |-> FALSE]


\* ----------------------------------------------------------------- state
VARIABLES
  config,            \* the config prop, fixed for the session
  inlineCallbacks,   \* the parent passes a new onDataChange function on each of its renders
  mounted,           \* mountedRef.current
  initialized,       \* initializedRef.current
  dropdownData,      \* the option store
  selections,        \* the selection snapshot
  refreshing,        \* the per-dropdown loading flags
  timers,            \* the settle timers in flight, in the order they expire
  modal,             \* which authoring modal is open: none, menu, single, import
  activeDropdownId,  \* the dropdown the authoring modals work on, "" for null
  persisted,         \* localStorage[storeKey]: <<>> for null, or <<text>>
  setItemThrows,     \* localStorage.setItem throws (quota exceeded, storage denied)
  dataSeen,          \* the last argument of onDataChange: <<>> or <<store>>
  selectionsSeen,    \* the last argument of onSelectionChange: <<>> or <<snapshot>>
  lastEvent          \* the handler that ran last, with its inputs and outcome

vars == <<config, inlineCallbacks, mounted, initialized, dropdownData, selections, refreshing, timers,
          modal, activeDropdownId, persisted, setItemThrows, dataSeen, selectionsSeen,
          lastEvent>>

\* saved: the save effect ran in this step, because the handler called
\* setDropdownData or because the parent rendered again and passed a new
\* onDataChange.
Event(k, i, v, t, a, d, s) ==
  [kind |-> k, id |-> i, value |-> v, toast |-> t, added |-> a, duplicates |-> d,
   saved |-> s]

\* A plausible slip: a text that does not parse leaves the store empty.
initialDropdownData_uncaught(cfg, item) ==
  IF item = <<>> \/ item[1] = <<>> THEN defaultData(cfg)
  ELSE IF parse(item[1]).ok THEN storeOf(parse(item[1]).val)
  ELSE [options |-> <<>>, relations |-> <<>>]

\* The useState initializer of dropdownData with no initialData: the parsed
\* item of localStorage, or the seed options when getItem returns null or ''
\* or JSON.parse throws.
initialDropdownData(cfg, item) ==
  IF item = <<>> \/ item[1] = <<>> THEN defaultData(cfg)
  ELSE IF parse(item[1]).ok THEN storeOf(parse(item[1]).val)
  ELSE defaultData(cfg)

\* The component as constructed, before its first commit, with nothing stored
\* under storeKey.
Init ==
  /\ config \in Configs
  /\ inlineCallbacks = FALSE
  /\ mounted = FALSE
  /\ initialized = FALSE
  /\ persisted = <<>>
  /\ setItemThrows = FALSE
  /\ dropdownData = initialDropdownData(config, persisted)
  /\ selections = NoSelections
  /\ refreshing = [id \in Ids(config) |-> FALSE]
  /\ timers = <<>>
  /\ modal = "none"
  /\ activeDropdownId = ""
  /\ dataSeen = <<>>
  /\ selectionsSeen = <<>>
  /\ lastEvent = Event("init", "", <<>>, "", <<>>, <<>>, FALSE)

\* A plausible slip: the store is not written when it changes.
setItem_skipped(cfg, item, data, throws) == item

\* localStorage.setItem(storeKey, JSON.stringify(dropdownData)) of the save
\* effect: the item afterwards.
setItem(cfg, item, data, throws) ==
  IF throws THEN item ELSE <<stringify(cfg, data)>>

\* A plausible slip: a store whose write failed is dropped again.
Effects_rollback(newData, newSel, seen, saved) ==
  LET kept == IF saved /\ setItemThrows THEN dropdownData ELSE newData
      eff  == defaultSelectionsEffect(config, initialized, kept, newSel)
      ran  == saved \/ (inlineCallbacks /\ eff.fired)
  IN  /\ dropdownData' = kept
      /\ persisted' = IF ran THEN setItem(config, persisted, newData, setItemThrows)
                       ELSE persisted
      /\ dataSeen' = IF ran /\ ~setItemThrows THEN <<newData>> ELSE dataSeen
      /\ initialized' = eff.initialized
      /\ selections' = eff.selections
      /\ selectionsSeen' = IF eff.fired THEN <<eff.selections>> ELSE seen

\* The effects that follow a render in which the store is newData and the
\* selections are newSel.  saved: a dependency of the save effect changed
\* (the store object, or the onDataChange prop), so the save effect runs; then
\* the default-selections effect runs, and when it calls onSelectionChange a
\* parent that keeps the selections in its state renders again, which changes
\* an inline onDataChange and runs the save effect once more.
Effects(newData, newSel, seen, saved) ==
  LET eff == defaultSelectionsEffect(config, initialized, newData, newSel)
      ran == saved \/ (inlineCallbacks /\ eff.fired)
  IN  /\ dropdownData' = newData
      /\ persisted' = IF ran THEN setItem(config, persisted, newData, setItemThrows)
                       ELSE persisted
      /\ dataSeen' = IF ran /\ ~setItemThrows THEN <<newData>> ELSE dataSeen
      /\ initialized' = eff.initialized
      /\ selections' = eff.selections
      /\ selectionsSeen' = IF eff.fired THEN <<eff.selections>> ELSE seen

\* The first commit: the three effects run in order.
Mount ==
  /\ ~mounted
  /\ mounted' = TRUE
  /\ Effects(dropdownData, selections, selectionsSeen, TRUE)
  /\ lastEvent' = Event("mount", "", <<>>, "", <<>>, <<>>, TRUE)
  /\ UNCHANGED <<config, inlineCallbacks, setItemThrows, refreshing, timers, modal, activeDropdownId>>

\* The values the rendered Select of a dropdown offers besides "Add New".
offered(dropdown) ==
  {o.value : o \in Range(getDropdownOptions(dropdown, dropdownData, selections))}

\* handleSelection up to the await: the user picks an offered option.
Select(d, v) ==
  /\ mounted /\ modal = "none"
  /\ Len(timers) < MaxPending
  /\ v \in offered(FindDropdown(config, d))
  /\ v # ADD_NEW
  /\ refreshing' = [refreshing EXCEPT ![d] = TRUE]
  /\ timers' = Append(timers, [kind |-> "select", id |-> d, value |-> v,
                               selections |-> selections])
  /\ lastEvent' = Event("select", d, v, "", <<>>, <<>>, FALSE)
  /\ UNCHANGED <<config, inlineCallbacks, setItemThrows, mounted, initialized, dropdownData, selections, modal,
                 activeDropdownId, persisted, dataSeen, selectionsSeen>>

\* handleSelection with '__add_new__': the entry is rendered for a creatable,
\* enabled dropdown (or is an option of that value).
SelectAddNew(d) ==
  /\ mounted /\ modal = "none"
  /\ \/ FindDropdown(config, d).creatable /\ ~isDisabled(FindDropdown(config, d), selections)
     \/ ADD_NEW \in offered(FindDropdown(config, d))
  /\ activeDropdownId' = d
  /\ modal' = "menu"
  /\ lastEvent' = Event("addNew", d, ADD_NEW, "", <<>>, <<>>, FALSE)
  /\ UNCHANGED <<config, inlineCallbacks, setItemThrows, mounted, initialized, dropdownData, selections, refreshing,
                 timers, persisted, dataSeen, selectionsSeen>>

handleAddSingleOption ==
  /\ modal = "menu"
  /\ modal' = "single"
  /\ lastEvent' = Event("menuSingle", activeDropdownId, <<>>, "", <<>>, <<>>, FALSE)
  /\ UNCHANGED <<config, inlineCallbacks, setItemThrows, mounted, initialized, dropdownData, selections, refreshing,
                 timers, activeDropdownId, persisted, dataSeen, selectionsSeen>>

handleOpenImportModal ==
  /\ modal = "menu"
  /\ modal' = "import"
  /\ lastEvent' = Event("menuImport", activeDropdownId, <<>>, "", <<>>, <<>>, FALSE)
  /\ UNCHANGED <<config, inlineCallbacks, setItemThrows, mounted, initialized, dropdownData, selections, refreshing,
                 timers, activeDropdownId, persisted, dataSeen, selectionsSeen>>

\* onCancel of the open modal.
CancelModal ==
  /\ modal # "none"
  /\ modal' = "none"
  /\ lastEvent' = Event("cancel", activeDropdownId, <<>>, "", <<>>, <<>>, FALSE)
  /\ UNCHANGED <<config, inlineCallbacks, setItemThrows, mounted, initialized, dropdownData, selections, refreshing,
                 timers, activeDropdownId, persisted, dataSeen, selectionsSeen>>


\* Where a timer of 100 ms can expire among the timers in flight: after every
\* earlier 100 ms timer, before or after the 200 ms timers set earlier.
lastAddTimer(ts) ==
  LET adds == {i \in 1..Len(ts) : ts[i].kind = "add"}
  IN  IF adds = {} THEN 0 ELSE CHOOSE i \in adds : \A j \in adds : j <= i

InsertAt(ts, p, t) == SubSeq(ts, 1, p - 1) \o <<t>> \o SubSeq(ts, p, Len(ts))

\* saveNewOption: OK of the "Add New" modal with the typed name.
saveNewOption(raw) ==
  /\ mounted /\ modal = "single"
  /\ Len(timers) < MaxPending
  /\ Authored(config, dropdownData) < authoredBound(config)
  /\ LET dropdown    == FindDropdown(config, activeDropdownId)
         label       == trim(raw)
         value       == deriveValue(label)
         existing    == getDropdownOptions(dropdown, dropdownData, selections)
         parentValue == IF dropdown.dependsOn = "" THEN <<>>
                        ELSE Sel(selections, dropdown.dependsOn)
         newData     == createChildRelations(config,
                          addToCollection(dropdownData, dropdown, parentValue, Opt(value, label)),
                          activeDropdownId, value)
     IN  IF label = <<>>
         THEN /\ lastEvent' = Event("saveNewOption", activeDropdownId, <<>>, "", <<>>, <<>>, FALSE)
              /\ UNCHANGED <<dropdownData, selections, timers, modal, persisted, dataSeen,
                             selectionsSeen, initialized>>
         ELSE IF existsSingle(existing, value, label)
         THEN /\ lastEvent' = Event("saveNewOption", activeDropdownId, value,
                                    "Option already exists", <<>>, <<label>>, FALSE)
              /\ UNCHANGED <<dropdownData, selections, timers, modal, persisted, dataSeen,
                             selectionsSeen, initialized>>
         ELSE IF noParentContext(dropdown, selections)
         THEN /\ lastEvent' = Event("saveNewOption", activeDropdownId, value, "", <<>>, <<>>, FALSE)
              /\ UNCHANGED <<dropdownData, selections, timers, modal, persisted, dataSeen,
                             selectionsSeen, initialized>>
         ELSE /\ modal' = "none"
              /\ Effects(newData, selections, selectionsSeen, TRUE)
              /\ \E p \in (lastAddTimer(timers) + 1)..(Len(timers) + 1) :
                    timers' = InsertAt(timers, p,
                                [kind |-> "add", id |-> activeDropdownId, value |-> value,
                                 selections |-> selections])
              /\ lastEvent' = Event("saveNewOption", activeDropdownId, value, "",
                                    <<label>>, <<>>, TRUE)
  /\ UNCHANGED <<config, inlineCallbacks, setItemThrows, mounted, refreshing, activeDropdownId>>

\* handleImportOptions: OK of the import modal with the typed text.
handleImportOptions(text) ==
  /\ mounted /\ modal = "import"
  /\ Authored(config, dropdownData) + Len(importLines(text)) <= authoredBound(config)
  /\ LET dropdown    == FindDropdown(config, activeDropdownId)
         lines       == importLines(text)
         existing    == getDropdownOptions(dropdown, dropdownData, selections)
         parentValue == IF dropdown.dependsOn = "" THEN <<>>
                        ELSE Sel(selections, dropdown.dependsOn)
         res         == importEach(config, dropdown, existing, parentValue, lines,
                                   [data |-> dropdownData, added |-> <<>>, duplicates |-> <<>>])
     IN  IF trim(text) = <<>>
         THEN /\ lastEvent' = Event("import", activeDropdownId, text, "", <<>>, <<>>, FALSE)
              /\ UNCHANGED <<dropdownData, selections, modal, persisted, dataSeen,
                             selectionsSeen, initialized>>
         ELSE IF lines = <<>>
         THEN /\ lastEvent' = Event("import", activeDropdownId, text, "No options to import",
                                    <<>>, <<>>, FALSE)
              /\ UNCHANGED <<dropdownData, selections, modal, persisted, dataSeen,
                             selectionsSeen, initialized>>
         ELSE IF noNewOptions(res)
         THEN /\ modal' = "none"
              /\ lastEvent' = Event("import", activeDropdownId, text, "No new options added",
                                    res.added, res.duplicates, FALSE)
              /\ UNCHANGED <<dropdownData, selections, persisted, dataSeen,
                             selectionsSeen, initialized>>
         ELSE /\ modal' = "none"
              /\ Effects(res.data, selections, selectionsSeen, TRUE)
              /\ lastEvent' = Event("import", activeDropdownId, text, "Options Imported",
                                    res.added, res.duplicates, TRUE)
  /\ UNCHANGED <<config, inlineCallbacks, setItemThrows, mounted, refreshing, timers, activeDropdownId>>

\* A plausible slip: the commit leaves the loading flag set.
SelectCommit_loading ==
  /\ timers # <<>> /\ Head(timers).kind = "select"
  /\ LET t      == Head(timers)
         newSel == newSelections(config, t.selections, t.id, t.value)
     IN  /\ Effects(dropdownData, newSel, <<newSel>>, inlineCallbacks)
         /\ lastEvent' = Event("selectCommit", t.id, t.value, "", <<>>, <<>>,
                               inlineCallbacks)
  /\ timers' = Tail(timers)
  /\ UNCHANGED <<config, inlineCallbacks, setItemThrows, mounted, refreshing, modal,
                 activeDropdownId>>

\* The 200 ms timer of handleSelection expires: the rest of handleSelection
\* runs with the selections it captured when it was called.  onSelectionChange
\* makes a parent that keeps the selections in its state render again; an
\* inline onDataChange is then a new function and the save effect runs.
SelectCommit ==
  /\ timers # <<>> /\ Head(timers).kind = "select"
  /\ LET t      == Head(timers)
         newSel == newSelections(config, t.selections, t.id, t.value)
     IN  /\ Effects(dropdownData, newSel, <<newSel>>, inlineCallbacks)
         /\ refreshing' = [refreshing EXCEPT ![t.id] = FALSE]
         /\ lastEvent' = Event("selectCommit", t.id, t.value, "", <<>>, <<>>,
                               inlineCallbacks)
  /\ timers' = Tail(timers)
  /\ UNCHANGED <<config, inlineCallbacks, setItemThrows, mounted, modal, activeDropdownId>>

\* The 100 ms timer of saveNewOption expires.
AddCommit ==
  /\ timers # <<>> /\ Head(timers).kind = "add"
  /\ LET t      == Head(timers)
         newSel == addedSelections(config, t.selections, t.id, t.value)
     IN  /\ Effects(dropdownData, newSel, <<newSel>>, inlineCallbacks)
         /\ lastEvent' = Event("addCommit", t.id, t.value, "Option Added", <<>>, <<>>,
                               inlineCallbacks)
  /\ timers' = Tail(timers)
  /\ UNCHANGED <<config, inlineCallbacks, setItemThrows, mounted, refreshing, modal, activeDropdownId>>

Next ==
  \/ Mount
  \/ \E d \in Ids(config) : \E v \in offered(FindDropdown(config, d)) : Select(d, v)
  \/ \E d \in Ids(config) : SelectAddNew(d)
  \/ handleAddSingleOption
  \/ handleOpenImportModal
  \/ CancelModal
  \/ \E raw \in RawNames : saveNewOption(raw)
  \/ \E text \in ImportTexts : handleImportOptions(text)
  \/ SelectCommit
  \/ AddCommit

Spec == Init /\ [][Next]_vars

\* The same component when what the user types is the text of the "Add New"
\* entry's value, as a name or as an import line.
SentinelNames == { ADD_NEW, <<"A">> }
SentinelTexts == { ADD_NEW, <<"A">> }

SentinelNext ==
  \/ Mount
  \/ \E d \in Ids(config) : \E v \in offered(FindDropdown(config, d)) : Select(d, v)
  \/ \E d \in Ids(config) : SelectAddNew(d)
  \/ handleAddSingleOption
  \/ handleOpenImportModal
  \/ CancelModal
  \/ \E raw \in SentinelNames : saveNewOption(raw)
  \/ \E text \in SentinelTexts : handleImportOptions(text)
  \/ SelectCommit
  \/ AddCommit

SentinelSpec == Init /\ [][SentinelNext]_vars

\* The same component with a localStorage that may hold an item when the
\* component is constructed, may refuse writes during a session, and outlives
\* the component.
PairConfig ==
  << Dropdown("a", <<Opt(<<"x">>, <<"A">>)>>, "", TRUE),
     Dropdown("b", <<>>, "a", TRUE) >>

InitialItems == { <<>>, << <<>> >>, << <<"{", QUOTE, "options", QUOTE>> >> }
StorageNames == { <<QUOTE, BACKSLASH>> }
StorageTexts == { <<BACKSLASH, "n">> }

StorageInit ==
  /\ config = PairConfig
  /\ inlineCallbacks = FALSE
  /\ mounted = FALSE
  /\ initialized = FALSE
  /\ persisted \in InitialItems
  /\ setItemThrows \in BOOLEAN
  /\ dropdownData = initialDropdownData(config, persisted)
  /\ selections = NoSelections
  /\ refreshing = [id \in Ids(config) |-> FALSE]
  /\ timers = <<>>
  /\ modal = "none"
  /\ activeDropdownId = ""
  /\ dataSeen = <<>>
  /\ selectionsSeen = <<>>
  /\ lastEvent = Event("init", "", <<>>, "", <<>>, <<>>, FALSE)

\* The page is loaded again: the component is constructed anew with the same
\* config and storeKey; only localStorage is kept, and by then its quota may
\* have been reached or space freed.
Reload ==
  /\ mounted
  /\ mounted' = FALSE
  /\ initialized' = FALSE
  /\ dropdownData' = initialDropdownData(config, persisted)
  /\ selections' = NoSelections
  /\ refreshing' = [id \in Ids(config) |-> FALSE]
  /\ timers' = <<>>
  /\ modal' = "none"
  /\ activeDropdownId' = ""
  /\ dataSeen' = <<>>
  /\ selectionsSeen' = <<>>
  /\ setItemThrows' \in BOOLEAN
  /\ lastEvent' = Event("reload", "", <<>>, "", <<>>, <<>>, FALSE)
  /\ UNCHANGED <<config, inlineCallbacks, persisted>>

StorageNext ==
  \/ Mount
  \/ \E d \in Ids(config) : \E v \in offered(FindDropdown(config, d)) : Select(d, v)
  \/ \E d \in Ids(config) : SelectAddNew(d)
  \/ handleAddSingleOption
  \/ handleOpenImportModal
  \/ CancelModal
  \/ \E raw \in StorageNames : saveNewOption(raw)
  \/ \E text \in StorageTexts : handleImportOptions(text)
  \/ SelectCommit
  \/ AddCommit
  \/ Reload

StorageSpec == StorageInit /\ [][StorageNext]_vars

\* The same component given a config prop whose dependsOn entries form a
\* cycle, or name a dropdown that is not configured.
CyclicConfig ==
  << Dropdown("a", <<Opt(<<"x">>, <<"A">>), Opt(<<"y">>, <<"B">>)>>, "", TRUE),
     Dropdown("b", <<Opt(<<"s">>, <<"S">>)>>, "c", TRUE),
     Dropdown("c", <<>>, "b", TRUE) >>

DanglingConfig ==
  << Dropdown("a", <<Opt(<<"x">>, <<"A">>), Opt(<<"y">>, <<"B">>)>>, "", TRUE),
     Dropdown("b", <<Opt(<<"s">>, <<"S">>)>>, "z", TRUE) >>

\* The component as constructed with one of the given configs and nothing
\* stored under storeKey.
InitWith(cfgs) ==
  /\ config \in cfgs
  /\ inlineCallbacks = FALSE
  /\ mounted = FALSE
  /\ initialized = FALSE
  /\ persisted = <<>>
  /\ setItemThrows = FALSE
  /\ dropdownData = initialDropdownData(config, persisted)
  /\ selections = NoSelections
  /\ refreshing = [id \in Ids(config) |-> FALSE]
  /\ timers = <<>>
  /\ modal = "none"
  /\ activeDropdownId = ""
  /\ dataSeen = <<>>
  /\ selectionsSeen = <<>>
  /\ lastEvent = Event("init", "", <<>>, "", <<>>, <<>>, FALSE)

MalformedInit == InitWith({CyclicConfig, DanglingConfig})

MalformedSpec == MalformedInit /\ [][Next]_vars

\* The same component given a config prop whose root dropdown is not creatable
\* and has a seed option whose value is the value of the "Add New" entry.
GatedConfig ==
  << Dropdown("a", <<Opt(<<"x">>, <<"A">>), Opt(ADD_NEW, <<"B">>)>>, "", FALSE),
     Dropdown("b", <<>>, "a", TRUE) >>

GatedInit == InitWith({GatedConfig})

GatedSpec == GatedInit /\ [][Next]_vars


\* The component inside the demo page: the page keeps the arguments of
\* onSelectionChange and onDataChange in its own state (here selectionsSeen and
\* dataSeen, <<>> for the page's null), and passes handleDataChange, a function
\* made anew by each render of the page.
DemoNames == { <<"A">>, <<"B">> }
DemoTexts == { <<"A">> }

DemoInit ==
  /\ config = PairConfig
  /\ inlineCallbacks = TRUE
  /\ mounted = FALSE
  /\ initialized = FALSE
  /\ persisted = <<>>
  /\ setItemThrows = FALSE
  /\ dropdownData = initialDropdownData(config, persisted)
  /\ selections = NoSelections
  /\ refreshing = [id \in Ids(config) |-> FALSE]
  /\ timers = <<>>
  /\ modal = "none"
  /\ activeDropdownId = ""
  /\ dataSeen = <<>>
  /\ selectionsSeen = <<>>
  /\ lastEvent = Event("init", "", <<>>, "", <<>>, <<>>, FALSE)

\* resetAllData of the demo page, confirmed in its dialog: the item is removed,
\* the page's copies are reset, and the page renders again.  The component
\* stays mounted with its own state; it is handed a new onDataChange, so its
\* save effect runs with the store it holds and reports that store to the page.
resetAllData ==
  /\ mounted /\ inlineCallbacks /\ modal = "none"
  /\ persisted' = setItem(config, <<>>, dropdownData, setItemThrows)
  /\ dataSeen' = IF setItemThrows THEN <<>> ELSE <<dropdownData>>
  /\ selectionsSeen' = <<NoSelections>>
  /\ lastEvent' = Event("reset", "", <<>>, "Data Reset", <<>>, <<>>, TRUE)
  /\ UNCHANGED <<config, inlineCallbacks, setItemThrows, mounted, initialized, dropdownData,
                 selections, refreshing, timers, modal, activeDropdownId>>

DemoNext ==
  \/ Mount
  \/ \E d \in Ids(config) : \E v \in offered(FindDropdown(config, d)) : Select(d, v)
  \/ \E d \in Ids(config) : SelectAddNew(d)
  \/ handleAddSingleOption
  \/ handleOpenImportModal
  \/ CancelModal
  \/ \E raw \in DemoNames : saveNewOption(raw)
  \/ \E text \in DemoTexts : handleImportOptions(text)
  \/ SelectCommit
  \/ AddCommit
  \/ resetAllData

DemoSpec == DemoInit /\ [][DemoNext]_vars


\* The component with its timers: a timer set by setTimeout expires in the end,
\* whatever the user does meanwhile.
LiveNames == { <<"A">> }
LiveTexts == { <<"A">> }

LiveInit == InitWith({PairConfig})

LiveNext ==
  \/ Mount
  \/ \E d \in Ids(config) : \E v \in offered(FindDropdown(config, d)) : Select(d, v)
  \/ \E d \in Ids(config) : SelectAddNew(d)
  \/ handleAddSingleOption
  \/ handleOpenImportModal
  \/ CancelModal
  \/ \E raw \in LiveNames : saveNewOption(raw)
  \/ \E text \in LiveTexts : handleImportOptions(text)
  \/ SelectCommit
  \/ AddCommit

LiveSpec == LiveInit /\ [][LiveNext]_vars /\ WF_vars(SelectCommit) /\ WF_vars(AddCommit)


\* The component with the three-level hierarchy when the user gives the same
\* name to the options added under different parents.
DeepNames == { <<"A">> }
DeepTexts == { <<"A">> }

DeepInit == InitWith({DeepConfig})

DeepNext ==
  \/ Mount
  \/ \E d \in Ids(config) : \E v \in offered(FindDropdown(config, d)) : Select(d, v)
  \/ \E d \in Ids(config) : SelectAddNew(d)
  \/ handleAddSingleOption
  \/ handleOpenImportModal
  \/ CancelModal
  \/ \E raw \in DeepNames : saveNewOption(raw)
  \/ \E text \in DeepTexts : handleImportOptions(text)
  \/ SelectCommit
  \/ AddCommit

DeepSpec == DeepInit /\ [][DeepNext]_vars


\* ------------------------------------------------------ claim vocabulary
\* The dependsOn chain above a dropdown, and the dropdowns below one, read off
\* the configuration (not through findDependentDropdowns).
RECURSIVE AncestorsOf(_, _)
AncestorsOf(cfg, id) ==
  LET p == FindDropdown(cfg, id).dependsOn
  IN  IF p = "" THEN {} ELSE {p} \cup AncestorsOf(cfg, p)

DescendantsOf(cfg, p) == {d \in Ids(cfg) : p \in AncestorsOf(cfg, d)}

\* The option list of the current context of a dropdown.
Resolved(id) == getDropdownOptions(FindDropdown(config, id), dropdownData, selections)

\* Every option list the store holds.
Contexts(data) ==
  {data.options[id] : id \in DOMAIN data.options}
    \cup {data.relations[i].options : i \in 1..Len(data.relations)}

\* C1. Cascade invariant: right after a select(p, v) commits, the snapshot
\* entry of every descendant of p (children, grandchildren, ...) is ''.
C1_CascadeInvariant ==
  lastEvent.kind = "selectCommit" =>
    \A id \in DescendantsOf(config, lastEvent.id) :
       id \in DOMAIN selections /\ selections[id] = <<>>

\* A select on the root has committed while the store holds options for the
\* grandchild, so the cleared descendants are ones that had something to select.
C1_Witness ==
  /\ lastEvent.kind = "selectCommit" /\ lastEvent.id = "a"
  /\ \E i \in 1..Len(dropdownData.relations) :
        dropdownData.relations[i].child = "c" /\ dropdownData.relations[i].options # <<>>
  /\ Sel(selections, "c") = <<>> /\ "c" \in DOMAIN selections

\* C2. Ancestor invariant: a non-empty snapshot entry has non-empty entries
\* all the way up its dependsOn chain, in every reachable state.
C2_AncestorInvariant ==
  \A d \in Ids(config) :
     Sel(selections, d) # <<>> =>
       \A a \in AncestorsOf(config, d) : Sel(selections, a) # <<>>

\* A delayed commit has run and the grandchild is selected under two ancestors.
C2_Witness ==
  /\ lastEvent.kind \in {"selectCommit", "addCommit"}
  /\ Sel(selections, "c") # <<>>
  /\ Sel(selections, "b") # <<>> /\ Sel(selections, "a") # <<>>

\* C3. Parent gating: a dependent dropdown whose parent entry is empty or
\* absent resolves to no options, whatever the store holds for it.
C3_ParentGating ==
  \A id \in Ids(config) :
     LET dropdown == FindDropdown(config, id)
     IN  (dropdown.dependsOn # "" /\ Sel(selections, dropdown.dependsOn) = <<>>)
           => getDropdownOptions(dropdown, dropdownData, selections) = <<>>

\* The parent of c is unselected (cleared) while a relation stores options for c.
C3_Witness ==
  /\ "b" \in DOMAIN selections /\ selections["b"] = <<>>
  /\ \E i \in 1..Len(dropdownData.relations) :
        dropdownData.relations[i].child = "c" /\ dropdownData.relations[i].options # <<>>

\* C4. Selection validity: every non-empty snapshot entry is the value of an
\* option of the dropdown's current context.
C4_SelectionValidity ==
  \A d \in Ids(config) :
     Sel(selections, d) # <<>> =>
       \E i \in 1..Len(Resolved(d)) : Resolved(d)[i].value = selections[d]

\* A select on the dependent dropdown b has committed its value while the
\* store holds options for b under two different parent values.
C4_Witness ==
  /\ lastEvent.kind = "selectCommit" /\ lastEvent.id = "b"
  /\ Sel(selections, "b") = lastEvent.value
  /\ \E i, j \in 1..Len(dropdownData.relations) :
        /\ dropdownData.relations[i].child = "b" /\ dropdownData.relations[j].child = "b"
        /\ dropdownData.relations[i].parentValue # dropdownData.relations[j].parentValue
        /\ dropdownData.relations[i].options # <<>> /\ dropdownData.relations[j].options # <<>>


\* C5. Select frame: when select(d, v) commits, every snapshot entry other
\* than d and the descendants of d keeps the value it had right before the
\* commit (no selection committed meanwhile on another dropdown is reverted).
C5_SelectFrame ==
  [][ lastEvent'.kind = "selectCommit" =>
        \A id \in Ids(config) \ ({lastEvent'.id} \cup DescendantsOf(config, lastEvent'.id)) :
           Sel(selections', id) = Sel(selections, id) ]_vars

\* C6. Single pending-commit slot: the timer of a select that has a newer
\* select on the same dropdown behind it writes nothing and notifies nobody.
C6_Superseded ==
  [][ ( /\ lastEvent'.kind = "selectCommit"
        /\ \E j \in 2..Len(timers) :
              timers[j].kind = "select" /\ timers[j].id = Head(timers).id )
        => (selections' = selections /\ selectionsSeen' = selectionsSeen) ]_vars

\* C7. Relation uniqueness: the relations hold at most one entry per
\* (parent, parentValue, child) triple.
C7_RelationUniqueness ==
  \A i, j \in 1..Len(dropdownData.relations) :
     i < j =>
       ~ ( /\ dropdownData.relations[i].parent = dropdownData.relations[j].parent
           /\ dropdownData.relations[i].parentValue = dropdownData.relations[j].parentValue
           /\ dropdownData.relations[i].child = dropdownData.relations[j].child )

\* C8. Option uniqueness: no option list of the store holds two options
\* whose values, or whose labels, are equal ignoring case.
C8_OptionUniqueness ==
  \A options \in Contexts(dropdownData) :
     \A i, j \in 1..Len(options) :
        i < j =>
          /\ toLowerCase(options[i].value) # toLowerCase(options[j].value)
          /\ toLowerCase(options[i].label) # toLowerCase(options[j].label)

\* C9. Bulk in-batch duplicates: of the lines one import accepts, no two have
\* labels or derived values that are equal ignoring case (the later one is
\* reported in duplicates instead).
C9_InBatchDuplicates ==
  lastEvent.kind = "import" =>
    \A i, j \in 1..Len(lastEvent.added) :
       i < j =>
         /\ toLowerCase(lastEvent.added[i]) # toLowerCase(lastEvent.added[j])
         /\ toLowerCase(deriveValue(lastEvent.added[i]))
              # toLowerCase(deriveValue(lastEvent.added[j]))

\* C10. Single-add duplicate detection: saveNewOption never inserts a label
\* when the current context already holds an option with that value or that
\* label, ignoring case; it leaves store and snapshot as they were.
C10_SingleAddDuplicate ==
  [][ ( /\ lastEvent'.kind = "saveNewOption"
        /\ modal = "single"
        /\ \E raw \in RawNames :
              /\ trim(raw) # <<>>
              /\ lastEvent'.value = deriveValue(trim(raw))
              /\ \E i \in 1..Len(Resolved(activeDropdownId)) :
                    \/ toLowerCase(Resolved(activeDropdownId)[i].value)
                         = toLowerCase(deriveValue(trim(raw)))
                    \/ toLowerCase(Resolved(activeDropdownId)[i].label)
                         = toLowerCase(trim(raw)) )
        => ( /\ dropdownData' = dropdownData
             /\ selections' = selections
             /\ lastEvent'.toast = "Option already exists" ) ]_vars


\* C11: a bulk import that adds at least one option leaves the selection
\* snapshot as it was before the import, once the effects it triggers have run.
\* Refuted: when no root dropdown had an option at the first evaluation of the
\* default-selections effect, initializedRef is still false and the snapshot
\* is empty, so the effect that re-runs on the new store selects the first
\* imported option of a root dropdown.
C11_BulkKeepsSelection ==
  [][ (lastEvent'.kind = "import" /\ lastEvent'.added # <<>>) => selections' = selections ]_vars

\* C12. addSingle success effect: right after a successful saveNewOption the
\* option {value derived from the label, label} is the last element of the
\* option list of the dropdown's current context; right after its 100 ms
\* callback has run, the snapshot entry of the dropdown is that value and the
\* entry of every descendant is ''.
C12_AddSingleEffect ==
  /\ (lastEvent.kind = "saveNewOption" /\ lastEvent.added # <<>>) =>
        LET opts == Resolved(lastEvent.id)
        IN  /\ opts # <<>>
            /\ opts[Len(opts)] = Opt(deriveValue(lastEvent.added[1]), lastEvent.added[1])
            /\ lastEvent.value = deriveValue(lastEvent.added[1])
  /\ lastEvent.kind = "addCommit" =>
        /\ Sel(selections, lastEvent.id) = lastEvent.value
        /\ \A id \in DescendantsOf(config, lastEvent.id) :
              id \in DOMAIN selections /\ selections[id] = <<>>

\* The callback of an add on the root has run while the store holds options of
\* the child under another root value: the child entry it cleared was one that
\* could hold a selection.
C12_Witness ==
  /\ lastEvent.kind = "addCommit" /\ lastEvent.id = "a"
  /\ selections["a"] = lastEvent.value
  /\ "b" \in DOMAIN selections /\ selections["b"] = <<>>
  /\ \E i \in 1..Len(dropdownData.relations) :
        /\ dropdownData.relations[i].child = "b"
        /\ dropdownData.relations[i].parentValue # lastEvent.value
        /\ dropdownData.relations[i].options # <<>>

\* C13. addSingle atomicity: the store insertion, the child-context creation
\* and the selection change of one addSingle are one step, so in the state a
\* successful saveNewOption leaves (the one onDataChange reports and the
\* next operation sees) the new option is already the selection of its dropdown.
\* Refuted: the selection change is the callback of a 100 ms timer.
C13_AddSingleAtomic ==
  (lastEvent.kind = "saveNewOption" /\ lastEvent.added # <<>>) =>
     /\ Sel(selections, lastEvent.id) = lastEvent.value
     /\ \A i \in 1..Len(timers) : timers[i].kind # "add"

\* C14. Sentinel exclusion: '__add_new__' is never the value of a snapshot
\* entry, whatever is selected, added or imported.
\* Refuted: an option authored with the label '__add_new__' gets that value,
\* and the callback of saveNewOption (or the default-selections effect) writes
\* it to the snapshot without passing through handleSelection.
C14_SentinelExcluded ==
  \A id \in DOMAIN selections : selections[id] # ADD_NEW

\* C15. NoParentContext: a saveNewOption or handleImportOptions on a dependent
\* dropdown whose parent has no selection leaves the store (options and
\* relations, child-context relations included), what is saved, and the
\* snapshot exactly as they were before the call.
C15_NoParentContext ==
  [][ ( /\ lastEvent'.kind \in {"saveNewOption", "import"}
        /\ FindDropdown(config, lastEvent'.id).dependsOn # ""
        /\ Sel(selections, FindDropdown(config, lastEvent'.id).dependsOn) = <<>> )
      => /\ dropdownData' = dropdownData
         /\ persisted' = persisted
         /\ selections' = selections
         /\ lastEvent'.added = <<>> ]_vars

\* saveNewOption has run with a name that is neither blank nor a duplicate, on
\* a dependent dropdown whose parent lost its selection while the modal was
\* open, and returned without adding.
C15_Witness ==
  /\ lastEvent.kind = "saveNewOption" /\ lastEvent.value # <<>>
  /\ lastEvent.toast = "" /\ lastEvent.added = <<>>
  /\ FindDropdown(config, lastEvent.id).dependsOn # ""
  /\ Sel(selections, FindDropdown(config, lastEvent.id).dependsOn) = <<>>

\* C16. NoNewOptions: a handleImportOptions whose text has at least one
\* non-blank line and that adds no option leaves the store and the snapshot as
\* they were, and neither saves the store nor calls onDataChange.
C16_NoNewOptions ==
  [][ ( /\ lastEvent'.kind = "import"
        /\ importLines(lastEvent'.value) # <<>>
        /\ lastEvent'.added = <<>> )
      => /\ dropdownData' = dropdownData
         /\ selections' = selections
         /\ persisted' = persisted
         /\ dataSeen' = dataSeen
         /\ ~lastEvent'.saved ]_vars

\* An import of two lines has run in which every line was a duplicate.
C16_Witness ==
  /\ lastEvent.kind = "import" /\ lastEvent.added = <<>>
  /\ Len(importLines(lastEvent.value)) = 2
  /\ Len(lastEvent.duplicates) = 2
  /\ lastEvent.toast = "No new options added"

\* C17. EmptyImport: a handleImportOptions whose text has no non-blank line is
\* reported with a toast.
\* Refuted: the handler returns on "!importText.trim()" before any toast; the
\* "No options to import" toast that follows can never run.
C17_EmptyImportReported ==
  (lastEvent.kind = "import" /\ importLines(lastEvent.value) = <<>>) => lastEvent.toast # ""

\* Every option value the store holds, in any context.
KnownValues(data) == {o.value : o \in UNION {Range(l) : l \in Contexts(data)}}

\* C18. Sibling-context isolation: when a saveNewOption or handleImportOptions
\* inserts into a dependent dropdown d while its parent's value is x, the
\* options d resolves to under every other parent value y are what they were,
\* every root bucket is unchanged, and every relation other than the one of
\* (parent, x, d) is unchanged.
C18_SiblingIsolation ==
  [][ ( /\ lastEvent'.kind \in {"saveNewOption", "import"}
        /\ lastEvent'.added # <<>>
        /\ FindDropdown(config, lastEvent'.id).dependsOn # "" )
      => LET d == FindDropdown(config, lastEvent'.id)
             x == Sel(selections, d.dependsOn)
             t == relationIndex(dropdownData.relations, d.dependsOn, x, d.id)
         IN  /\ \A y \in (KnownValues(dropdownData) \cup KnownValues(dropdownData')) \ {x} :
                   getDropdownOptions(d, dropdownData', Put(selections, d.dependsOn, y))
                     = getDropdownOptions(d, dropdownData, Put(selections, d.dependsOn, y))
             /\ dropdownData'.options = dropdownData.options
             /\ \A i \in 1..Len(dropdownData.relations) :
                   i # t => dropdownData'.relations[i] = dropdownData.relations[i] ]_vars

\* An option has been added to the child under one root value while the store
\* holds options of the child under another root value.
C18_Witness ==
  /\ lastEvent.kind = "saveNewOption" /\ lastEvent.added # <<>> /\ lastEvent.id = "b"
  /\ \E i, j \in 1..Len(dropdownData.relations) :
        /\ dropdownData.relations[i].child = "b" /\ dropdownData.relations[j].child = "b"
        /\ dropdownData.relations[i].parentValue = Sel(selections, "a")
        /\ dropdownData.relations[j].parentValue # Sel(selections, "a")
        /\ dropdownData.relations[i].options # <<>>
        /\ dropdownData.relations[j].options # <<>>

\* C19. Child contexts exist: right after a saveNewOption or
\* handleImportOptions that inserted options into dropdown d, the store holds,
\* for every inserted value V and every dropdown c with dependsOn = d, a
\* relation (d, V, c); it is the store that holds the new options, and the one
\* that was saved and passed to onDataChange.
C19_ChildContexts ==
  (lastEvent.kind \in {"saveNewOption", "import"} /\ lastEvent.added # <<>>) =>
     /\ \A k \in 1..Len(lastEvent.added) :
           /\ Opt(deriveValue(lastEvent.added[k]), lastEvent.added[k])
                 \in UNION {Range(l) : l \in Contexts(dropdownData)}
           /\ \A c \in {c \in Ids(config) : FindDropdown(config, c).dependsOn = lastEvent.id} :
                 \E i \in 1..Len(dropdownData.relations) :
                    /\ dropdownData.relations[i].parent = lastEvent.id
                    /\ dropdownData.relations[i].parentValue = deriveValue(lastEvent.added[k])
                    /\ dropdownData.relations[i].child = c
     /\ persisted = <<stringify(config, dropdownData)>>
     /\ dataSeen = <<dropdownData>>

\* An import has added two options to the child, which the grandchild depends on.
C19_Witness ==
  /\ lastEvent.kind = "import" /\ lastEvent.id = "b" /\ Len(lastEvent.added) = 2
  /\ \E i \in 1..Len(dropdownData.relations) :
        dropdownData.relations[i].parent = "b" /\ dropdownData.relations[i].child = "c"

\* C20. Default initialization: right after the component has mounted, every
\* dropdown without dependsOn whose option list is non-empty has the value of
\* the first option of that list as its snapshot entry, and no other dropdown
\* (a dependent one, or a root without options) has a snapshot entry.
C20_DefaultInitialization ==
  lastEvent.kind = "mount" =>
    \A id \in Ids(config) :
       LET dropdown == FindDropdown(config, id)
           options  == getDropdownOptions(dropdown, dropdownData, NoSelections)
       IN  IF dropdown.dependsOn = "" /\ options # <<>>
           THEN id \in DOMAIN selections /\ selections[id] = options[1].value
           ELSE id \notin DOMAIN selections

\* The component has mounted on a configuration whose root has two seed
\* options and whose child has a seed option of its own.
C20_Witness ==
  /\ lastEvent.kind = "mount"
  /\ Len(FindDropdown(config, "a").options) = 2
  /\ FindDropdown(config, "b").options # <<>>
  /\ DOMAIN selections = {"a"} /\ selections["a"] = FindDropdown(config, "a").options[1].value
  /\ selectionsSeen = <<selections>>

\* C21. Default initialization is idempotent: once initializedRef is set or the
\* snapshot holds a key, the flag stays set, the snapshot and what
\* onSelectionChange was last called with change only in the commit of a
\* select or of an add, and such a commit leaves exactly the snapshot its
\* handler computed: no later evaluation of the default-selections effect
\* writes or notifies.
C21_DefaultOnce ==
  [][ (initialized \/ DOMAIN selections # {}) =>
        /\ initialized /\ initialized'
        /\ (selections' # selections \/ selectionsSeen' # selectionsSeen)
              => lastEvent'.kind \in {"selectCommit", "addCommit"}
        /\ lastEvent'.kind = "selectCommit" =>
              selections' = newSelections(config, Head(timers).selections,
                                          Head(timers).id, Head(timers).value)
        /\ lastEvent'.kind = "addCommit" =>
              selections' = addedSelections(config, Head(timers).selections,
                                            Head(timers).id, Head(timers).value) ]_vars

\* The store of the root changed while the root's selection was not its first
\* option: the effect was evaluated again and left the snapshot alone.
C21_Witness ==
  /\ initialized
  /\ lastEvent.kind = "saveNewOption" /\ lastEvent.added # <<>> /\ lastEvent.id = "a"
  /\ Sel(selections, "a") # <<>>
  /\ Sel(selections, "a") # dropdownData.options["a"][1].value

C23_WriteThrough ==
  [][ ( /\ ~setItemThrows /\ lastEvent'.kind # "reload"
        /\ (dropdownData' # dropdownData \/ lastEvent'.kind = "mount") )
      => /\ persisted' = <<stringify(config, dropdownData')>>
         /\ parse(persisted'[1]).ok
         /\ storeOf(parse(persisted'[1]).val) = dropdownData' ]_vars

\* An import has added an option to the child after a single add on the root,
\* and the stored text is that of the store with both.
C23_Witness ==
  /\ lastEvent.kind = "import" /\ lastEvent.added # <<>> /\ lastEvent.id = "b"
  /\ ~setItemThrows
  /\ Len(dropdownData.options["a"]) > Len(FindDropdown(config, "a").options)
  /\ persisted = <<stringify(config, dropdownData)>>

\* C24. onDataChange is called with the new store after every saveNewOption or
\* handleImportOptions that changed the store, also when the write to
\* localStorage fails.
\* Refuted: the call follows setItem inside the same try block, so a setItem
\* that throws skips it.
C24_DataChangeObserved ==
  (lastEvent.kind \in {"saveNewOption", "import"} /\ lastEvent.added # <<>>) =>
     dataSeen = <<dropdownData>>

\* C25. Persistence failure does not roll back: right after a saveNewOption or
\* handleImportOptions whose write to localStorage failed, the store holds
\* every option it added, the dropdown resolves to them, and the stored item
\* is not the text of that store.
C25_NoRollback ==
  (setItemThrows /\ lastEvent.kind \in {"saveNewOption", "import"} /\ lastEvent.added # <<>>) =>
     /\ \A k \in 1..Len(lastEvent.added) :
           Opt(deriveValue(lastEvent.added[k]), lastEvent.added[k])
             \in Range(Resolved(lastEvent.id))
     /\ Authored(config, dropdownData) > 0
     /\ persisted # <<stringify(config, dropdownData)>>

\* While localStorage refuses writes, a second saveNewOption of the same name
\* was refused as a duplicate of the option that is only in memory.
C25_Witness ==
  /\ setItemThrows
  /\ lastEvent.kind = "saveNewOption" /\ lastEvent.toast = "Option already exists"
  /\ persisted # <<stringify(config, dropdownData)>>
  /\ Opt(lastEvent.value, lastEvent.duplicates[1]) \in Range(Resolved(lastEvent.id))
  /\ Opt(lastEvent.value, lastEvent.duplicates[1])
        \notin Range(FindDropdown(config, lastEvent.id).options)

\* C26. Round-trip: from the item a successful save has just written, the
\* useState initializer reads back the store that was saved; and a component
\* constructed again while the item under storeKey is the text of the store
\* of the session before starts with a store equal to it (same option lists
\* and same relations, in the same order).
C26_RoundTrip ==
  [][ /\ (lastEvent'.saved /\ ~setItemThrows) =>
            initialDropdownData(config, persisted') = dropdownData'
      /\ (lastEvent'.kind = "reload" /\ persisted = <<stringify(config, dropdownData)>>) =>
            dropdownData' = dropdownData ]_vars

\* The component was constructed again over a stored text holding two authored
\* options, one with a quote and a backslash in its label, and relations.
C26_Witness ==
  /\ lastEvent.kind = "reload"
  /\ Authored(config, dropdownData) = 2
  /\ dropdownData.relations # <<>>
  /\ \E l \in Contexts(dropdownData) : \E i \in 1..Len(l) :
        QUOTE \in Range(l[i].label) /\ BACKSLASH \in Range(l[i].label)
  /\ persisted = <<stringify(config, dropdownData)>>

\* C27. Load fallback: a component constructed while localStorage has no item
\* under storeKey, or an item that does not parse, has as its store the seed
\* options of every configured dropdown and no relations.
C27_LoadFallback ==
  ( /\ lastEvent.kind \in {"init", "reload"}
    /\ (persisted = <<>> \/ ~parse(persisted[1]).ok) )
  => /\ DOMAIN dropdownData.options = Ids(config)
     /\ \A id \in Ids(config) : dropdownData.options[id] = FindDropdown(config, id).options
     /\ dropdownData.relations = <<>>

\* The component was constructed again over a truncated text, which a session
\* that could not write had left in place.
C27_Witness ==
  /\ lastEvent.kind = "reload"
  /\ persisted # <<>> /\ persisted[1] # <<>> /\ ~parse(persisted[1]).ok
  /\ dropdownData.options["a"] = FindDropdown(config, "a").options
  /\ dropdownData.options["a"] # <<>>

\* The dependsOn entries met going up from a dropdown, at most n of them.
RECURSIVE ChainFrom(_, _, _)
ChainFrom(cfg, id, n) ==
  IF n = 0 \/ id \notin Ids(cfg) THEN {}
  ELSE LET p == FindDropdown(cfg, id).dependsOn
       IN  IF p = "" THEN {} ELSE {p} \cup ChainFrom(cfg, p, n - 1)

\* A dropdown is its own ancestor, or an ancestor is not configured.
Malformed(cfg) ==
  \E id \in Ids(cfg) :
     LET chain == ChainFrom(cfg, id, Len(cfg))
     IN  id \in chain \/ \E p \in chain : p \notin Ids(cfg)

\* C28. Malformed configuration is refused: with a config that has a cycle in
\* dependsOn or a dependsOn naming no configured id, the component never
\* becomes a mounted session with default selections.
\* Refuted: the config is never validated; the component mounts, selects the
\* defaults of the root dropdowns and serves selects and adds on them, and
\* findDependentDropdowns has no test for a repeated id.
C28_MalformedRefused ==
  Malformed(config) => ~(mounted /\ initialized)

\* C29. Creatable gating: the option lists of a dropdown whose config entry is
\* not creatable never change: its bucket holds its seed options and every
\* relation it is the child of is empty, whatever is selected (the value
\* '__add_new__' included), added or imported.
\* Refuted: only the rendering of the "Add New" entry tests creatable;
\* handleSelection opens the authoring menu for any dropdown on which
\* '__add_new__' is picked, and saveNewOption and handleImportOptions add to
\* the active dropdown without testing it.
C29_CreatableGating ==
  \A d \in Ids(config) :
     ~FindDropdown(config, d).creatable =>
        /\ dropdownData.options[d] = FindDropdown(config, d).options
        /\ \A i \in 1..Len(dropdownData.relations) :
              dropdownData.relations[i].child = d => dropdownData.relations[i].options = <<>>

IsPrefix(s, t) == Len(s) <= Len(t) /\ SubSeq(t, 1, Len(s)) = s

\* C30. Append-only option lists: in every step of a session, each root bucket
\* and each relation of the store before the step is still there, at the same
\* place and for the same (parent, parentValue, child), and its option list
\* before the step is a prefix of its option list after it.
C30_AppendOnly ==
  [][ /\ DOMAIN dropdownData.options \subseteq DOMAIN dropdownData'.options
      /\ \A id \in DOMAIN dropdownData.options :
            IsPrefix(dropdownData.options[id], dropdownData'.options[id])
      /\ Len(dropdownData.relations) <= Len(dropdownData'.relations)
      /\ \A i \in 1..Len(dropdownData.relations) :
            /\ dropdownData'.relations[i].parent = dropdownData.relations[i].parent
            /\ dropdownData'.relations[i].parentValue = dropdownData.relations[i].parentValue
            /\ dropdownData'.relations[i].child = dropdownData.relations[i].child
            /\ IsPrefix(dropdownData.relations[i].options, dropdownData'.relations[i].options)
    ]_vars

\* An option has been added to the root, whose bucket held its two seed
\* options, and it comes after them.
C30_Witness ==
  /\ lastEvent.kind = "saveNewOption" /\ Len(lastEvent.added) = 1 /\ lastEvent.id = "a"
  /\ Len(FindDropdown(config, "a").options) = 2
  /\ Len(dropdownData.options["a"]) = 3
  /\ SubSeq(dropdownData.options["a"], 1, 2) = FindDropdown(config, "a").options
  /\ dropdownData.options["a"][3].label = lastEvent.added[1]

\* C31. The store is mutated only by authoring: a select (its pending step, its
\* commit, and the pick of the "Add New" entry) and the default initialization
\* leave the store unchanged, and none of them triggers a save.
C31_SelectNoSave ==
  [][ /\ lastEvent'.kind \in {"select", "addNew", "selectCommit"} =>
            /\ dropdownData' = dropdownData
            /\ persisted' = persisted
            /\ ~lastEvent'.saved
      /\ lastEvent'.kind = "mount" => dropdownData' = dropdownData ]_vars

\* C32. Reset Data clears all custom options: after resetAllData every option
\* the component offers is a seed option of the configuration, and the record
\* under the store key holds no option beyond the seed options.
C32_ResetClears ==
  [][ lastEvent'.kind = "reset" =>
        /\ \A d \in Ids(config) :
              Range(getDropdownOptions(FindDropdown(config, d), dropdownData', selections'))
                 \subseteq Range(FindDropdown(config, d).options)
        /\ initialDropdownData(config, persisted') = defaultData(config) ]_vars


\* C33. Selections are persisted with the custom options: a session constructed
\* again with the same storeKey starts with the snapshot the ended session had,
\* either as constructed or once its first commit has run its effects.
C33_SelectionsRestored ==
  [][ (lastEvent'.kind = "reload" /\ persisted = <<stringify(config, dropdownData)>>) =>
        LET first == defaultSelectionsEffect(config, FALSE, dropdownData', selections').selections
        IN  \/ \A d \in Ids(config) : Sel(selections', d) = Sel(selections, d)
            \/ \A d \in Ids(config) : Sel(first, d) = Sel(selections, d) ]_vars


\* The selects invoked on a dropdown whose 200 ms timer has not expired yet.
PendingSelects(ts, d) == {i \in 1..Len(ts) : ts[i].kind = "select" /\ ts[i].id = d}

\* C34. Pending state: the flag refreshing[d] is true exactly while a select on
\* d has been invoked and has not committed yet; it is never cleared while a
\* select on d is still pending.
C34_PendingFlag ==
  \A d \in Ids(config) : refreshing[d] <=> PendingSelects(timers, d) # {}


\* The dropdowns and the option values of the sessions of LiveSpec.
LiveIds == Ids(PairConfig)
LiveValues == {<<"x">>} \cup {deriveValue(trim(raw)) : raw \in LiveNames}

\* C35. Liveness of select: when timers are scheduled fairly, every select(d, v)
\* that was invoked commits in the end, with snapshot[d] = v in the state of its
\* commit; a loading flag that is set is cleared in the end, and is not set
\* when no select on its dropdown is pending.
C35_SelectCommits ==
  \A d \in LiveIds :
    /\ \A v \in LiveValues :
          (\E i \in PendingSelects(timers, d) : timers[i].value = v)
             ~> ( /\ lastEvent.kind = "selectCommit" /\ lastEvent.id = d
                  /\ lastEvent.value = v /\ Sel(selections, d) = v )
    /\ refreshing[d] ~> ~refreshing[d]
    /\ [](PendingSelects(timers, d) = {} => ~refreshing[d])

\* A select on the dependent dropdown has committed while a select on the root
\* invoked after it is still pending.
C35_Witness ==
  /\ lastEvent.kind = "selectCommit" /\ lastEvent.id = "b"
  /\ Sel(selections, "b") = lastEvent.value
  /\ ~refreshing["b"]
  /\ PendingSelects(timers, "a") # {}


\* The snapshots that differ from sel in the value of dropdown g only, g taking
\* another value it offers, in which dropdown p still offers the value it has
\* in sel.
OtherPaths(data, sel, g, p) ==
  { Put(sel, g, o.value) :
      o \in { o \in Range(getDropdownOptions(FindDropdown(config, g), data, sel)) :
                /\ o.value # Sel(sel, g)
                /\ \E q \in Range(getDropdownOptions(FindDropdown(config, p), data,
                                                     Put(sel, g, o.value))) :
                      q.value = Sel(sel, p) } }

\* C36. Full-path context: an option added to a dropdown d under the path of
\* selections of its ancestors is not offered for d in a snapshot where d's
\* parent has the same value but the parent's parent has another.
C36_FullPath ==
  [][ (lastEvent'.kind = "saveNewOption" /\ lastEvent'.saved) =>
        LET d == FindDropdown(config, lastEvent'.id)
            p == d.dependsOn
            g == IF p = "" THEN "" ELSE FindDropdown(config, p).dependsOn
        IN  (p # "" /\ g # "") =>
              \A other \in OtherPaths(dropdownData', selections, g, p) :
                 \A o \in Range(getDropdownOptions(d, dropdownData', other)) :
                    o.value # lastEvent'.value ]_vars

====
